---- MODULE Spec2Model ----
(***************************************************************************)
(* Invitation lifecycle of the better-auth invite plugin: create,          *)
(* activate (POST and GET callback), the post-auth hook, cancel and        *)
(* reject, over the two tables `invite` and `inviteUse`.                   *)
(*                                                                         *)
(* Time is counted in ticks of 1800 seconds, so the default                *)
(* invitationTokenExpiresIn of 60 * 60 seconds is 2 ticks.                 *)
(***************************************************************************)
EXTENDS Integers, FiniteSets, Sequences, TLC

\* ------------------------------------------------------------------ bounds
MaxInvites == 1      \* invitations created in one behaviour
MaxTime == 2         \* last tick the clocks reach
MaxUseRows == 2      \* inviteUse rows inserted in one behaviour
MaxKeysPassed == 2   \* defaulted option keys one InviteOptions value carries

\* ------------------------------------------------------- program constants
DefaultExpiresIn == 2          \* 60 * 60 seconds
DefaultPrivateMaxUses == 1     \* maxUses of a private invite by default
Infinity == 1000               \* JS Infinity: above every count, Infinity - 1 = Infinity

\* ------------------------------------------------------------ the accounts
Users == {"u1", "u2"}
EmailOf == [u \in Users |-> IF u = "u1" THEN "a@x" ELSE "b@x"]
Emails == {"a@x", "b@x"}
NoEmail == ""                        \* body.email undefined: a public invite
NoSession == "anonymous"             \* a request that carries no session
NoCookie == 0                        \* tokens are 1, 2, ...
InitialRole == "user"
InviteRoles == {"admin"}
\* a defaultMaxUses an operator configures
DefaultMaxUsesTried == 3

\* type TokensType
TokensType == {"token", "code", "custom"}

\* An optional number (JS `number | undefined`) is a sequence of length <= 1.
Undefined == << >>
Some(n) == << n >>
Coalesce(a, b) == IF a # Undefined THEN a ELSE b      \* a ?? b

\* ------------------------------------------------------------- JS values
\* The value a can* option yields before any await: a boolean, or a promise
\* of a boolean when the option is an async function.  "newAccount" is the
\* canAcceptInvite of the README, ({ newAccount }) => newAccount.
Policies == {"true", "false", "fn", "async"}
Bool(b) == [kind |-> "bool", val |-> b]
Promise(b) == [kind |-> "promise", val |-> b]
Truthy(v) == v.kind = "promise" \/ v.val          \* !v is false for an object
Await(v) == Bool(v.val)
\* typeof opt === "function" ? opt(args) : opt
CallPolicy(opt, verdict) ==
    CASE opt = "true" -> Bool(TRUE)
      [] opt = "false" -> Bool(FALSE)
      [] opt = "fn" -> Bool(verdict)
      [] opt = "async" -> Promise(verdict)
      [] opt = "newAccount" -> Bool(verdict)
IsFunction(opt) == opt \in {"fn", "async", "newAccount"}

VARIABLES
    options,         \* the resolved plugin options (fixed at construction)
    invites,         \* rows of table invite
    uses,            \* rows of table inviteUse
    role,            \* user.role of every account
    accounts,        \* the users that have an account
    inviteCookie,    \* the signed invite_token cookie of the browser
    wallClock,       \* Date.now()
    logicalClock,    \* what an injected options.getDate() returns
    nextId,          \* next invite id / token
    pendingDeletes,  \* deleteInviteUses calls started and not yet completed
    inflight,        \* per user: the activation suspended between its checks
                     \* and consumeInvite, with what it has read
    last             \* history: the most recent request and its response

vars == << options, invites, uses, role, accounts, inviteCookie, wallClock,
           logicalClock, nextId, pendingDeletes, inflight, last >>

Tokens == 1..MaxInvites

\* ------------------------------------------------------- option resolution
\* The defaults of resolveInviteOptions; the send functions and the hooks
\* have no default (FALSE: not configured).
DefaultOptions ==
    [ getDate |-> "default",
      invitationTokenExpiresIn |-> DefaultExpiresIn,
      canCreateInvite |-> "true",
      canAcceptInvite |-> "true",
      canCancelInvite |-> "true",
      canRejectInvite |-> "true",
      defaultMaxUses |-> Undefined,
      defaultRedirectAfterUpgrade |-> "/auth/invited",
      defaultTokenType |-> "token",
      generateToken |-> FALSE,
      sendUserInvitation |-> FALSE,
      sendUserRoleUpgrade |-> FALSE,
      beforeAcceptInvite |-> FALSE,
      inviteHooks |-> FALSE,
      onInvitationUsed |-> "none" ]

\* The usual plugin configuration: a delivery function, the hooks that
\* return nothing (before/afterCreateInvite, afterAcceptInvite, before/
\* afterCancelInvite, before/afterRejectInvite) and an onInvitationUsed
\* that returns.  onInvitationUsed is "none" (not configured), or a
\* function that "returns", "throws" or "rejects" (returns a promise that
\* rejects).
UsualOptions ==
    [DefaultOptions EXCEPT !.sendUserInvitation = TRUE,
                           !.inviteHooks = TRUE,
                           !.onInvitationUsed = "returns"]

\* The plugin configurations explored when every user has an account: the
\* usual one, and that one with a single option set otherwise.
Configurations ==
    LET usual == UsualOptions
    IN  {usual}
        \cup {[usual EXCEPT !.canCreateInvite = p] : p \in Policies}
        \cup {[usual EXCEPT !.canAcceptInvite = p] : p \in Policies}
        \cup {[usual EXCEPT !.canCancelInvite = p] : p \in Policies}
        \cup {[usual EXCEPT !.canRejectInvite = p] : p \in Policies}
        \cup {[usual EXCEPT !.beforeAcceptInvite = TRUE]}
        \cup {[usual EXCEPT !.getDate = "injected"]}
        \cup {DefaultOptions}

\* The plugin configurations explored when an invited email may have no
\* account yet: every combination of the two delivery functions, the create
\* policies that can refuse, a configured defaultMaxUses and an injected
\* clock.
DeliveryConfigurations ==
    LET usual == UsualOptions
    IN  {usual, DefaultOptions}
        \cup {[usual EXCEPT !.sendUserInvitation = FALSE,
                            !.sendUserRoleUpgrade = TRUE]}
        \cup {[usual EXCEPT !.sendUserRoleUpgrade = TRUE]}
        \cup {[usual EXCEPT !.canCreateInvite = p] : p \in {"false", "fn", "async"}}
        \cup {[DefaultOptions EXCEPT !.canCreateInvite = "fn"]}
        \cup {[usual EXCEPT !.defaultMaxUses = Some(DefaultMaxUsesTried)]}
        \cup {[usual EXCEPT !.getDate = "injected"]}

\* The plugin configurations explored for the callbacks of a redemption: an
\* onInvitationUsed that fails, the accept policy of the README, a
\* beforeAcceptInvite, no callback at all and an injected clock.
AcceptConfigurations ==
    LET usual == UsualOptions
    IN  {usual, DefaultOptions}
        \cup {[usual EXCEPT !.onInvitationUsed = k] : k \in {"throws", "rejects"}}
        \cup {[usual EXCEPT !.canAcceptInvite = "newAccount"]}
        \cup {[usual EXCEPT !.beforeAcceptInvite = TRUE]}
        \cup {[usual EXCEPT !.getDate = "injected"]}

\* The plugin configurations explored for the token generators: every
\* defaultTokenType with and without options.generateToken.
TokenConfigurations ==
    LET usual == UsualOptions
    IN  {[usual EXCEPT !.defaultTokenType = tt, !.generateToken = g] :
            tt \in TokensType, g \in BOOLEAN}
        \cup {[usual EXCEPT !.getDate = "injected"]}

\* options.getDate()
GetDate == IF options.getDate = "default" THEN wallClock ELSE logicalClock
\* getDate(span, "sec"): Date.now() + span
getDate(span) == wallClock + span

\* a token generator: the function that runs and the length and alphabet of
\* the string it returns (options.generateToken returns what it likes)
generateId(n) == [fn |-> "generateId", length |-> n, alphabet |-> "a-z,A-Z,0-9"]
generateRandomString(n, alphabet) ==
    [fn |-> "generateRandomString", length |-> n, alphabet |-> alphabet]
CustomGenerateToken == [fn |-> "generateToken", length |-> 0, alphabet |-> "any"]
NoGenerator == [fn |-> "undefined", length |-> 0, alphabet |-> ""]

resolveTokenGenerator_BuiltInOnly(tokenType) ==
    CASE tokenType = "code" -> generateRandomString(6, "0-9,A-Z")
      [] tokenType \in {"token", "custom"} -> generateId(24)
      [] OTHER -> NoGenerator

\* resolveTokenGenerator: the generator for a token type
resolveTokenGenerator(tokenType) ==
    IF tokenType = "custom" /\ options.generateToken
    THEN CustomGenerateToken
    ELSE CASE tokenType = "code" -> generateRandomString(6, "0-9,A-Z")
           [] tokenType = "token" -> generateId(24)
           [] tokenType = "custom" -> generateId(24)
           [] OTHER -> NoGenerator

\* resolveInvitePayload, the fields the lifecycle uses
resolveInvitePayload(body) ==
    [ tokenType |-> IF body.tokenType # "" THEN body.tokenType
                    ELSE options.defaultTokenType,
      maxUses |-> Coalesce(body.maxUses, options.defaultMaxUses),
      expiresIn |-> Coalesce(body.expiresIn, Some(options.invitationTokenExpiresIn)),
      redirectToAfterUpgrade |->
          IF body.redirectToAfterUpgrade # ""
          THEN body.redirectToAfterUpgrade
          ELSE options.defaultRedirectAfterUpgrade ]

\* ------------------------------------------------------------ the adapter
Null == [id |-> 0]

findInvitation(token) ==
    IF \E i \in invites : i.token = token
    THEN CHOOSE i \in invites : i.token = token
    ELSE Null

countInvitationUses(inviteId) ==
    Cardinality({r \in uses : r.inviteId = inviteId})

\* the id the store gives a new inviteUse row: one no row carries
NewUseId == CHOOSE n \in 1..(Cardinality(uses) + 1) : \A r \in uses : r.id # n

deleteInviteUses_Nothing(inviteId) == uses

\* the rows left by deleteInviteUses(inviteId)
deleteInviteUses(inviteId) == {r \in uses : r.inviteId # inviteId}

deleteInvitation_Nothing(token) == invites

\* the rows left by deleteInvitation(token)
deleteInvitation(token) == {i \in invites : i.token # token}

newMaxUses_OnePerInvite(body) ==
    Coalesce(body.maxUses,
      Coalesce(options.defaultMaxUses, Some(DefaultPrivateMaxUses)))

\* adapter.createInvite, lines 28-31: the maxUses of the new row
newMaxUses(body) ==
    Coalesce(body.maxUses,
      Coalesce(options.defaultMaxUses,
        IF body.email # NoEmail THEN Some(DefaultPrivateMaxUses)
                                ELSE Some(Infinity)))

baseAdapterCreate_Lost(row) == invites

\* baseAdapter.create on table invite: the rows after the insert
baseAdapterCreate(row) == invites \cup {row}

\* adapter.createInvite: the row persisted for a create body
createInvite(body, user) ==
    LET payload == resolveInvitePayload(body)
        generateToken == resolveTokenGenerator(payload.tokenType)
    IN  [ id |-> nextId,
          token |-> nextId,
          tokenFormat |-> generateToken,
          createdByUserId |-> user,
          createdAt |-> GetDate,
          expiresAt |-> getDate(payload.expiresIn[1]),
          maxUses |-> newMaxUses(body)[1],
          redirectToAfterUpgrade |-> payload.redirectToAfterUpgrade,
          email |-> body.email,
          role |-> body.role ]

\* the session user as the handlers see it
UserRecord(u) == [id |-> u, email |-> EmailOf[u]]

\* findUserByEmail
findUserByEmail(email) == {u \in accounts : EmailOf[u] = email}

\* ----------------------------------------------------------- the requests
\* the create bodies tried: every email with every maxUses and expiresIn
\* and no redirectToAfterUpgrade ("": undefined), and every email with a
\* redirectToAfterUpgrade and nothing else
Bodies ==
    [ email : {NoEmail} \cup Emails,
      role : InviteRoles,
      maxUses : {Undefined, Some(2)},
      expiresIn : {Undefined, Some(1)},
      redirectToAfterUpgrade : {""},
      tokenType : {""} ]
    \cup
    [ email : {NoEmail} \cup Emails,
      role : InviteRoles,
      maxUses : {Undefined},
      expiresIn : {Undefined},
      redirectToAfterUpgrade : {"/welcome"},
      tokenType : {""} ]

\* the create bodies tried for the token generators: a public and a private
\* invite with every tokenType and without one ("": undefined)
TokenBodies ==
    [ email : {NoEmail, "a@x"},
      role : InviteRoles,
      maxUses : {Undefined},
      expiresIn : {Undefined},
      redirectToAfterUpgrade : {""},
      tokenType : {""} \cup TokensType ]

\* the create bodies tried for concurrent activations: a public invite for
\* one use, for two uses and without a limit, one for two uses that expires
\* early, and a private one
RaceBodies ==
    [ email : {NoEmail},
      role : InviteRoles,
      maxUses : {Undefined, Some(1), Some(2)},
      expiresIn : {Undefined},
      redirectToAfterUpgrade : {""},
      tokenType : {""} ]
    \cup
    [ email : {NoEmail},
      role : InviteRoles,
      maxUses : {Some(2)},
      expiresIn : {Some(1)},
      redirectToAfterUpgrade : {""},
      tokenType : {""} ]
    \cup
    [ email : {"b@x"},
      role : InviteRoles,
      maxUses : {Undefined},
      expiresIn : {Undefined},
      redirectToAfterUpgrade : {""},
      tokenType : {""} ]

\* the create bodies tried for the numbers the body schema lets through as
\* maxUses (z.number(): any number): none, zero, a negative one and two, on
\* a public and a private invite
MaxUsesBodies ==
    [ email : {NoEmail, "b@x"},
      role : InviteRoles,
      maxUses : {Undefined, Some(0), Some(0 - 1), Some(2)},
      expiresIn : {Undefined},
      redirectToAfterUpgrade : {""},
      tokenType : {""} ]

\* what beforeAcceptInvite returns: nothing, or a user record that replaces
\* the invited user
NoOverride == [id |-> "none"]
Overrides == {NoOverride} \cup [id : Users, email : Emails]

\* the response of a request and what the handler invoked on the way:
\* calls counts the calls of the can* option, hooks lists in order the
\* hooks and callbacks invoked, the token generator run, the writes to the
\* store and the delivery function called, sent holds the arguments of the
\* calls of a delivery function,
\* redirectTo the target of a redirect to the after-upgrade page, returned
\* the token a public create hands to its caller, session the user that
\* setSessionCookie wrote into the session of the response (NoSessionData:
\* the handler wrote none)
NoSessionData == [id |-> "none"]

RespondWith(op, status, errorCode, message, calls, hooks, sent, redirectTo, returned) ==
    last' = [ op |-> op, status |-> status, errorCode |-> errorCode,
              message |-> message, calls |-> calls, hooks |-> hooks,
              sent |-> sent, redirectTo |-> redirectTo, returned |-> returned,
              session |-> NoSessionData ]

\* the response of a request that ran consumeInvite to its end
RespondConsumed(op, status, message, calls, hooks, redirectTo, session) ==
    last' = [ op |-> op, status |-> status, errorCode |-> "",
              message |-> message, calls |-> calls, hooks |-> hooks,
              sent |-> << >>, redirectTo |-> redirectTo, returned |-> NoCookie,
              session |-> session ]

\* a response of a handler that invoked no hook and no delivery function
Respond(op, caller, token, status, errorCode, message, calls) ==
    RespondWith(op, status, errorCode, message, calls, << >>, << >>, "", NoCookie)

Hook_Never(name) == << >>

\* options.inviteHooks?.name?.(...): the hook is invoked if configured
Hook(name) == IF options.inviteHooks THEN << name >> ELSE << >>

\* no activation of the user is suspended
Idle == [pc |-> "idle"]

\* the state after construction, but for the options and the accounts
Fresh ==
    /\ invites = {}
    /\ uses = {}
    /\ role = [u \in Users |-> InitialRole]
    /\ inviteCookie = NoCookie
    /\ wallClock = 0
    /\ logicalClock = 0
    /\ nextId = 1
    /\ pendingDeletes = {}
    /\ inflight = [u \in Users |-> Idle]
    /\ last = [ op |-> "none", status |-> "none", errorCode |-> "",
                message |-> "", calls |-> 0, hooks |-> << >>, sent |-> << >>,
                redirectTo |-> "", returned |-> NoCookie,
                session |-> NoSessionData ]

\* every user has signed up already
Init ==
    /\ options \in Configurations
    /\ accounts = Users
    /\ Fresh

\* only the inviter has signed up: b@x has no account yet
InitSignUp ==
    /\ options \in DeliveryConfigurations
    /\ accounts = {"u1"}
    /\ Fresh

\* createInvite, lines 116-118: the delivery function configured for the
\* invited email ("": none)
SendFn(newAccount) ==
    IF newAccount
    THEN (IF options.sendUserInvitation THEN "sendUserInvitation" ELSE "")
    ELSE IF options.sendUserRoleUpgrade THEN "sendUserRoleUpgrade"
    ELSE IF options.sendUserInvitation THEN "sendUserInvitation"
    ELSE ""

NewAccount_Never(email) == FALSE

\* createInvite, lines 90-108: no account has the invited email
NewAccount(email) == findUserByEmail(email) = {}

CreateAllowed_NotAwaited(verdict) ==
    Truthy(CallPolicy(options.canCreateInvite, verdict))

\* createInvite, lines 71-80: the awaited create policy lets the request pass
CreateAllowed(verdict) ==
    Truthy(Await(CallPolicy(options.canCreateInvite, verdict)))

\* POST /invite/create
CreateInvite(inviter, body, verdict, sendThrows) ==
    LET inviteType == IF body.email # NoEmail THEN "private" ELSE "public"
        calls == IF IsFunction(options.canCreateInvite) THEN 1 ELSE 0
        newAccount == NewAccount(body.email)
        sendFn == SendFn(newAccount)
        invitation == createInvite(body, inviter)
        delivery == [ fn |-> sendFn, email |-> body.email, role |-> body.role,
                      token |-> invitation.token, newAccount |-> newAccount ]
        before == Hook("beforeCreateInvite")
        after == Hook("afterCreateInvite")
        \* adapter.createInvite: the generator runs, then the row is inserted
        stored == << invitation.tokenFormat.fn, "createInvite" >>
        Fail(msg, n, hooks, sent) ==
            RespondWith("create", "error", "", msg, n, hooks, sent, "", NoCookie)
        Persist == /\ invites' = baseAdapterCreate(invitation)
                   /\ nextId' = nextId + 1
    IN
    /\ inviter \in accounts
    /\ nextId <= MaxInvites
    /\ UNCHANGED << options, inflight, uses, role, accounts, inviteCookie, wallClock,
                    logicalClock, pendingDeletes >>
    /\ IF /\ inviteType = "private"
          /\ ~options.sendUserInvitation
          /\ ~options.sendUserRoleUpgrade
       THEN /\ Fail("Invitation email is not enabled", 0, << >>, << >>)
            /\ UNCHANGED << invites, nextId >>
       ELSE IF ~CreateAllowed(verdict)
       THEN /\ Fail("INSUFFICIENT_PERMISSIONS", calls, << >>, << >>)
            /\ UNCHANGED << invites, nextId >>
       ELSE /\ Persist
            /\ IF inviteType = "private" /\ sendFn = ""
               THEN Fail("Invitation email is not enabled", calls,
                         before \o stored, << >>)
               ELSE IF inviteType = "private" /\ sendThrows
               THEN Fail("ERROR_SENDING_THE_INVITATION_EMAIL", calls,
                         before \o stored \o << sendFn >>, << delivery >>)
               ELSE IF inviteType = "private"
               THEN RespondWith("create", "ok", "", "The invitation was sent",
                                calls,
                                before \o stored \o << sendFn >> \o after,
                                << delivery >>, "", NoCookie)
               ELSE RespondWith("create", "ok", "", "token", calls,
                                before \o stored \o after, << >>, "",
                                invitation.token)

\* --------------------------------------------------------------- consume
EmailMismatch_Unchecked(invitation, invitedUser) == FALSE

\* consumeInvite, line 641: the token is for another email
EmailMismatch(invitation, invitedUser) ==
    invitation.email # NoEmail /\ invitation.email # invitedUser.email

AcceptAllowed_NotEnforced(verdict) == TRUE

\* consumeInvite, lines 645-656: the accept policy lets the redemption pass.
\* The value of the option is tested as it is returned, without an await.
AcceptAllowed(verdict) == Truthy(CallPolicy(options.canAcceptInvite, verdict))

IsLastUse_OffByOne(timesUsed, invitation) ==
    timesUsed = invitation.maxUses

IsLastUse_Always(timesUsed, invitation) == TRUE

\* consumeInvite, line 681: this is the last use
IsLastUse(timesUsed, invitation) ==
    timesUsed = (IF invitation.maxUses = Infinity THEN Infinity
                 ELSE invitation.maxUses - 1)

\* consumeInvite, line 647: what canAcceptInvite({invitedUser, newAccount})
\* returns when the function returns verdict unless it is the policy that
\* returns its newAccount argument
canAcceptInvite(verdict, newAccount) ==
    IF options.canAcceptInvite = "newAccount" THEN newAccount ELSE verdict

\* the outcome of consumeInvite: the error it throws, or "OK"
consumeOutcome(invitation, invitedUser, verdict) ==
    IF EmailMismatch(invitation, invitedUser) THEN "INVALID_EMAIL"
    ELSE IF ~AcceptAllowed(verdict) THEN "CANT_ACCEPT_INVITE"
    ELSE "OK"

\* how often consumeInvite calls options.canAcceptInvite
acceptCalls(invitation, invitedUser) ==
    IF ~EmailMismatch(invitation, invitedUser)
       /\ IsFunction(options.canAcceptInvite)
    THEN 1 ELSE 0

\* consumeInvite, lines 658-694, once both checks have passed: the role
\* update and the use accounting.  deleteInviteUses is started and not
\* awaited: it has completed by the time consumeInvite returns (completed),
\* or it stays pending.
consumeInvite(invitation, userId, timesUsed, token, completed) ==
    /\ role' = [role EXCEPT ![userId] = invitation.role]
    /\ IF IsLastUse(timesUsed, invitation)
       THEN /\ uses' = IF completed THEN deleteInviteUses(invitation.id) ELSE uses
            /\ pendingDeletes' = IF completed THEN pendingDeletes
                                 ELSE pendingDeletes \cup {invitation.id}
            /\ invites' = deleteInvitation(token)
       ELSE /\ Cardinality(uses) < MaxUseRows
            /\ uses' = uses \cup {[ id |-> NewUseId,
                                    inviteId |-> invitation.id,
                                    usedByUserId |-> userId,
                                    usedAt |-> GetDate ]}
            /\ UNCHANGED << invites, pendingDeletes >>

\* a deleteInviteUses that was not awaited completes
DeleteInviteUsesCompletes(inviteId) ==
    /\ inviteId \in pendingDeletes
    /\ uses' = deleteInviteUses(inviteId)
    /\ pendingDeletes' = pendingDeletes \ {inviteId}
    /\ UNCHANGED << options, inflight, invites, role, accounts, inviteCookie, wallClock,
                    logicalClock, nextId, last >>

\* consumeInvite, lines 697-709: onInvitationUsed is invoked if configured
OnInvitationUsed ==
    IF options.onInvitationUsed # "none" THEN << "onInvitationUsed" >>
    ELSE << >>

\* how the call options.onInvitationUsed(...) ends
onInvitationUsedResult ==
    CASE options.onInvitationUsed = "none" -> "not called"
      [] options.onInvitationUsed = "returns" -> "resolved"
      [] options.onInvitationUsed = "throws" -> "thrown"
      [] options.onInvitationUsed = "rejects" -> "rejected"

TryOnInvitationUsed_Uncaught == onInvitationUsedResult

\* consumeInvite, lines 698-708: try { await Promise.resolve(call) } catch:
\* a throw and a rejection are logged
TryOnInvitationUsed ==
    IF onInvitationUsedResult \in {"thrown", "rejected"} THEN "logged"
    ELSE onInvitationUsedResult

\* an error of onInvitationUsed leaves consumeInvite
OnInvitationUsedEscapes == TryOnInvitationUsed \in {"thrown", "rejected"}

updatedUser_PreviousRole(invitedUser, invitation) ==
    [ id |-> invitedUser.id, email |-> invitedUser.email,
      role |-> role[invitedUser.id] ]

\* consumeInvite, lines 666-669: { ...invitedUser, role: invitation.role }
updatedUser(invitedUser, invitation) ==
    [ id |-> invitedUser.id, email |-> invitedUser.email,
      role |-> invitation.role ]

\* consumeInvite, lines 658-709: the writes and the callback, in order
consumeLog(invitation, timesUsed) ==
    << "updateUser", "setSessionCookie" >>
    \o (IF IsLastUse(timesUsed, invitation)
        THEN << "deleteInviteUses", "deleteInvitation" >>
        ELSE << "createInviteUse" >>)
    \o OnInvitationUsed

\* options.inviteHooks?.beforeAcceptInvite?.(...)
BeforeAccept == IF options.beforeAcceptInvite THEN << "beforeAcceptInvite" >>
                ELSE << >>

\* the invited user after beforeAcceptInvite: the record it returns, if any
AfterBeforeAccept(invitedUser, override) ==
    IF options.beforeAcceptInvite /\ override # NoOverride
    THEN override ELSE invitedUser

\* ------------------------------------------------------------- activate
HasUsesLeft_Unchecked(timesUsed, invitation) == TRUE

\* activateInviteLogic, line 37
HasUsesLeft(timesUsed, invitation) == timesUsed < invitation.maxUses
IsExpired_AtOrAfter(invitation) == GetDate > invitation.expiresAt + 1

\* activateInviteLogic, line 45
IsExpired(invitation) == GetDate > invitation.expiresAt

SetSignedCookie_Dropped(token) == NoCookie

\* activateInviteLogic, lines 93-103: the value the browser holds after
\* ctx.setSignedCookie(inviteCookie.name, token, ...)
SetSignedCookie(token) == token

\* POST /invite/activate (op = "activate") and GET /invite/:token
\* (op = "callback"): activateInviteLogic
ActivateInvite(op, caller, token, override, verdict, completed) ==
    LET invitation == findInvitation(token)
        timesUsed == countInvitationUses(invitation.id)
        invitedUser == AfterBeforeAccept(UserRecord(caller), override)
        outcome == consumeOutcome(invitation, invitedUser,
                                  canAcceptInvite(verdict, FALSE))
        calls == acceptCalls(invitation, invitedUser)
        consumed == BeforeAccept \o consumeLog(invitation, timesUsed)
        Fail(code, msg, n, hooks) ==
            /\ RespondWith(op, "error", code, msg, n, hooks, << >>, "", NoCookie)
            /\ UNCHANGED << invites, uses, role, inviteCookie, pendingDeletes >>
    IN
    /\ caller \in accounts \cup {NoSession}
    /\ UNCHANGED << options, inflight, accounts, wallClock, logicalClock, nextId >>
    /\ IF invitation = Null
       THEN Fail("INVALID_TOKEN", "Invalid invite token", 0, << >>)
       ELSE IF ~HasUsesLeft(timesUsed, invitation)
       THEN Fail("INVALID_TOKEN", "Invite token has already been used", 0, << >>)
       ELSE IF IsExpired(invitation)
       THEN Fail("INVALID_TOKEN", "Invite token has expired", 0, << >>)
       ELSE IF caller # NoSession
       THEN IF outcome # "OK"
            THEN Fail(outcome, outcome, calls, BeforeAccept)
            ELSE /\ consumeInvite(invitation, invitedUser.id, timesUsed,
                                  token, completed)
                 /\ IF OnInvitationUsedEscapes
                    THEN RespondConsumed(op, "error", "INTERNAL_SERVER_ERROR",
                                         calls, consumed, "",
                                         updatedUser(invitedUser, invitation))
                    ELSE RespondConsumed(op, "ok",
                                         "Invite activated successfully", calls,
                                         consumed \o Hook("afterAcceptInvite"),
                                         IF op = "callback"
                                         THEN invitation.redirectToAfterUpgrade
                                         ELSE "",
                                         updatedUser(invitedUser, invitation))
                 /\ UNCHANGED inviteCookie
       ELSE /\ inviteCookie' = SetSignedCookie(token)
            /\ Respond(op, caller, token, "ok", "", "SIGN_IN_UP_REQUIRED", 0)
            /\ UNCHANGED << invites, uses, role, pendingDeletes >>

\* POST /invite/activate of a signed-in caller up to the call of
\* consumeInvite (activateInviteLogic, lines 29-60): the invitation and the
\* number of uses are read and checked.  The request is suspended at its
\* next storage call, so what it has read may be out of date when
\* consumeInvite writes.
BeginActivate(caller, token, override) ==
    LET invitation == findInvitation(token)
        timesUsed == countInvitationUses(invitation.id)
        invitedUser == AfterBeforeAccept(UserRecord(caller), override)
        Fail(msg) ==
            /\ RespondWith("activate", "error", "INVALID_TOKEN", msg, 0, << >>,
                           << >>, "", NoCookie)
            /\ UNCHANGED inflight
    IN
    /\ caller \in accounts
    /\ inflight[caller].pc # "checked"
    /\ UNCHANGED << options, invites, uses, role, accounts, inviteCookie,
                    wallClock, logicalClock, nextId, pendingDeletes >>
    /\ IF invitation = Null
       THEN Fail("Invalid invite token")
       ELSE IF ~HasUsesLeft(timesUsed, invitation)
       THEN Fail("Invite token has already been used")
       ELSE IF IsExpired(invitation)
       THEN Fail("Invite token has expired")
       ELSE /\ inflight' = [inflight EXCEPT ![caller] =
                               [ pc |-> "checked", token |-> token,
                                 invitation |-> invitation,
                                 timesUsed |-> timesUsed,
                                 invitedUser |-> invitedUser ]]
            /\ UNCHANGED last

\* the suspended activation of caller resumes (activateInviteLogic, lines
\* 62-88): consumeInvite runs with the invitation and the count read
\* before, afterAcceptInvite follows
FinishActivate(caller, verdict, completed) ==
    LET r == inflight[caller]
        outcome == consumeOutcome(r.invitation, r.invitedUser,
                                  canAcceptInvite(verdict, FALSE))
        calls == acceptCalls(r.invitation, r.invitedUser)
    IN
    /\ r.pc = "checked"
    /\ UNCHANGED << options, accounts, inviteCookie, wallClock, logicalClock,
                    nextId >>
    /\ IF outcome # "OK"
       THEN /\ RespondWith("activate", "error", outcome, outcome, calls,
                           BeforeAccept, << >>, "", NoCookie)
            /\ inflight' = [inflight EXCEPT ![caller] = Idle]
            /\ UNCHANGED << invites, uses, role, pendingDeletes >>
       ELSE /\ consumeInvite(r.invitation, r.invitedUser.id, r.timesUsed,
                             r.token, completed)
            /\ inflight' = [inflight EXCEPT ![caller].pc = "done"]
            /\ RespondConsumed("activate", "ok",
                               "Invite activated successfully", calls,
                               BeforeAccept
                                   \o consumeLog(r.invitation, r.timesUsed)
                                   \o Hook("afterAcceptInvite"),
                               "", updatedUser(r.invitedUser, r.invitation))

\* ----------------------------------------------------------------- hook
\* invitesHook, line 748
HookIsExpired(invitation) == invitation.expiresAt < GetDate

ExpireCookie_Kept(cookie) == cookie

\* expireCookie(ctx, inviteCookie): the browser drops the cookie
ExpireCookie(cookie) == NoCookie

MissingInvitation_Throws == "error"

\* invitesHook, lines 744-746: if (invitation === null) return;
MissingInvitation == "noop"

GetSignedCookie_AnyInvite ==
    IF invites # {} THEN (CHOOSE i \in invites : TRUE).token ELSE inviteCookie

\* invitesHook, lines 730-733: ctx.getSignedCookie(inviteCookie.name, ...)
GetSignedCookie == inviteCookie

\* invitesHook: a sign-up or a sign-in of userId has just completed in the
\* browser that holds the invite cookie (a sign-up by a user without an
\* account, which it creates); userId = NoSession: the authentication
\* event left no new session
InvitesHook(userId, override, verdict, completed) ==
    LET inviteToken == GetSignedCookie
        invitation == findInvitation(inviteToken)
        timesUsed == countInvitationUses(invitation.id)
        invitedUser == AfterBeforeAccept(UserRecord(userId), override)
        outcome == consumeOutcome(invitation, invitedUser,
                                  canAcceptInvite(verdict, TRUE))
        calls == acceptCalls(invitation, invitedUser)
        consumed == BeforeAccept \o consumeLog(invitation, timesUsed)
        Stop(status, code, msg, n, hooks) ==
            /\ RespondWith("hook", status, code, msg, n, hooks, << >>, "",
                           NoCookie)
            /\ UNCHANGED << invites, uses, role, inviteCookie, pendingDeletes >>
    IN
    /\ UNCHANGED << options, inflight, wallClock, logicalClock, nextId >>
    /\ accounts' = accounts \cup (Users \cap {userId})
    /\ IF userId = NoSession
       THEN Stop("noop", "", "", 0, << >>)
       ELSE IF inviteToken = NoCookie
       THEN Stop("noop", "", "", 0, << >>)
       ELSE IF invitation = Null
       THEN Stop(MissingInvitation, "", "", 0, << >>)
       ELSE IF HookIsExpired(invitation)
       THEN Stop("error", "", "INVALID_OR_EXPIRED_INVITE", 0, << >>)
       ELSE IF ~HasUsesLeft(timesUsed, invitation)
       THEN Stop("error", "", "NO_USES_LEFT_FOR_INVITE", 0, << >>)
       ELSE IF outcome # "OK"
       THEN Stop("error", outcome, outcome, calls, BeforeAccept)
       ELSE /\ consumeInvite(invitation, userId, timesUsed, inviteToken,
                             completed)
            /\ IF OnInvitationUsedEscapes
               THEN /\ UNCHANGED inviteCookie
                    /\ RespondConsumed("hook", "error", "INTERNAL_SERVER_ERROR",
                                       calls, consumed, "",
                                       updatedUser(invitedUser, invitation))
               ELSE /\ inviteCookie' = ExpireCookie(inviteCookie)
                    /\ RespondConsumed("hook", "ok", "redirect", calls,
                                       consumed \o << "expireCookie" >>
                                           \o Hook("afterAcceptInvite"),
                                       invitation.redirectToAfterUpgrade,
                                       updatedUser(invitedUser, invitation))

\* --------------------------------------------------------------- cancel
IsCreator_Anyone(invite, inviterUser) == TRUE

\* cancelInvite, line 81
IsCreator(invite, inviterUser) == invite.createdByUserId = inviterUser
\* cancelInvite, lines 88-97
CancelAllowed(verdict) ==
    Truthy(Await(CallPolicy(options.canCancelInvite, verdict)))

\* POST /invite/cancel
CancelInvite(inviterUser, token, verdict) ==
    LET invite == findInvitation(token)
        Fail(code, n) ==
            /\ Respond("cancel", inviterUser, token, "error", code, code, n)
            /\ UNCHANGED << invites, uses >>
    IN
    /\ inviterUser \in accounts
    /\ UNCHANGED << options, inflight, role, accounts, inviteCookie, wallClock,
                    logicalClock, nextId, pendingDeletes >>
    /\ IF invite = Null
       THEN Fail("INVALID_TOKEN", 0)
       ELSE IF ~IsCreator(invite, inviterUser)
       THEN Fail("INSUFFICIENT_PERMISSIONS", 0)
       ELSE IF ~CancelAllowed(verdict)
       THEN Fail("INSUFFICIENT_PERMISSIONS",
                 IF IsFunction(options.canCancelInvite) THEN 1 ELSE 0)
       ELSE /\ uses' = deleteInviteUses(invite.id)
            /\ invites' = deleteInvitation(token)
            /\ RespondWith("cancel", "ok", "", "Invite cancelled successfully",
                           IF IsFunction(options.canCancelInvite) THEN 1 ELSE 0,
                           Hook("beforeCancelInvite")
                               \o << "deleteInviteUses", "deleteInvitation" >>
                               \o Hook("afterCancelInvite"),
                           << >>, "", NoCookie)

\* --------------------------------------------------------------- reject
IsInvitee_PublicToo(invitation, inviteeUser) ==
    ~(invitation.email # NoEmail /\ invitation.email # EmailOf[inviteeUser])

\* rejectInvite, lines 81-83
IsInvitee(invitation, inviteeUser) ==
    ~(invitation.email = NoEmail \/ invitation.email # EmailOf[inviteeUser])
\* rejectInvite, lines 90-99
RejectAllowed(verdict) ==
    Truthy(Await(CallPolicy(options.canRejectInvite, verdict)))

\* POST /invite/reject
RejectInvite(inviteeUser, token, verdict) ==
    LET invitation == findInvitation(token)
        Fail(code, n) ==
            /\ Respond("reject", inviteeUser, token, "error", code, code, n)
            /\ UNCHANGED << invites, uses >>
    IN
    /\ inviteeUser \in accounts
    /\ UNCHANGED << options, inflight, role, accounts, inviteCookie, wallClock,
                    logicalClock, nextId, pendingDeletes >>
    /\ IF invitation = Null
       THEN Fail("INVALID_TOKEN", 0)
       ELSE IF ~IsInvitee(invitation, inviteeUser)
       THEN Fail("CANT_REJECT_INVITE", 0)
       ELSE IF ~RejectAllowed(verdict)
       THEN Fail("CANT_REJECT_INVITE",
                 IF IsFunction(options.canRejectInvite) THEN 1 ELSE 0)
       ELSE /\ uses' = deleteInviteUses(invitation.id)
            /\ invites' = deleteInvitation(token)
            /\ RespondWith("reject", "ok", "", "Invite rejected successfully",
                           IF IsFunction(options.canRejectInvite) THEN 1 ELSE 0,
                           Hook("beforeRejectInvite")
                               \o << "deleteInviteUses", "deleteInvitation" >>
                               \o Hook("afterRejectInvite"),
                           << >>, "", NoCookie)

\* --------------------------------------------------------------- clocks
\* Date.now() advances
TickWall ==
    /\ wallClock < MaxTime
    /\ wallClock' = wallClock + 1
    /\ UNCHANGED << options, inflight, invites, uses, role, accounts, inviteCookie,
                    logicalClock, nextId, pendingDeletes, last >>

\* the injected options.getDate advances
TickLogical ==
    /\ options.getDate = "injected"
    /\ logicalClock < MaxTime
    /\ logicalClock' = logicalClock + 1
    /\ UNCHANGED << options, inflight, invites, uses, role, accounts, inviteCookie,
                    wallClock, nextId, pendingDeletes, last >>

\* the results a can* option can yield in one call: a literal has one, and
\* so has a function of its arguments alone
Verdicts(opt) == IF opt \in {"fn", "async"} THEN BOOLEAN ELSE {opt = "true"}
\* what beforeAcceptInvite can return in one call
OverridesNow == IF options.beforeAcceptInvite THEN Overrides ELSE {NoOverride}

Next ==
    \/ \E u \in Users, b \in Bodies, v \in Verdicts(options.canCreateInvite),
          t \in BOOLEAN :
          CreateInvite(u, b, v, t)
    \/ \E op \in {"activate", "callback"}, c \in Users \cup {NoSession},
          tok \in Tokens, o \in OverridesNow,
          v \in Verdicts(options.canAcceptInvite), d \in BOOLEAN :
          ActivateInvite(op, c, tok, o, v, d)
    \/ \E u \in Users \cup {NoSession}, o \in OverridesNow,
          v \in Verdicts(options.canAcceptInvite), d \in BOOLEAN :
          InvitesHook(u, o, v, d)
    \/ \E u \in Users, tok \in Tokens, v \in Verdicts(options.canCancelInvite) :
          CancelInvite(u, tok, v)
    \/ \E u \in Users, tok \in Tokens, v \in Verdicts(options.canRejectInvite) :
          RejectInvite(u, tok, v)
    \/ \E id \in Tokens : DeleteInviteUsesCompletes(id)
    \/ TickWall
    \/ TickLogical

Spec == Init /\ [][Next]_vars

\* only the inviter has signed up; the callbacks of a redemption differ
InitAccept ==
    /\ options \in AcceptConfigurations
    /\ accounts = {"u1"}
    /\ Fresh

\* the plugin with the callbacks of a redemption configured
SpecAccept == InitAccept /\ [][Next]_vars

\* every user has signed up already; the usual configuration
InitRace ==
    /\ options = UsualOptions
    /\ accounts = Users
    /\ Fresh

\* the requests, with the activation of a signed-in user in two steps that
\* other requests interleave with; an activation without a session and the
\* post-auth hook as before
NextRace ==
    \/ \E u \in Users, b \in RaceBodies,
          v \in Verdicts(options.canCreateInvite) :
          CreateInvite(u, b, v, FALSE)
    \/ \E u \in Users, tok \in Tokens, o \in OverridesNow :
          BeginActivate(u, tok, o)
    \/ \E u \in Users, v \in Verdicts(options.canAcceptInvite),
          d \in BOOLEAN :
          FinishActivate(u, v, d)
    \/ \E tok \in Tokens, o \in OverridesNow,
          v \in Verdicts(options.canAcceptInvite), d \in BOOLEAN :
          ActivateInvite("callback", NoSession, tok, o, v, d)
    \/ \E u \in Users, o \in OverridesNow,
          v \in Verdicts(options.canAcceptInvite), d \in BOOLEAN :
          InvitesHook(u, o, v, d)
    \/ \E u \in Users, tok \in Tokens, v \in Verdicts(options.canCancelInvite) :
          CancelInvite(u, tok, v)
    \/ \E u \in Users, tok \in Tokens, v \in Verdicts(options.canRejectInvite) :
          RejectInvite(u, tok, v)
    \/ \E id \in Tokens : DeleteInviteUsesCompletes(id)
    \/ TickWall

\* the plugin under concurrent requests
SpecRace == InitRace /\ [][NextRace]_vars

\* every user has signed up already; the token generators are configured
InitToken ==
    /\ options \in TokenConfigurations
    /\ accounts = Users
    /\ Fresh

\* the requests, with create bodies that choose a token type
NextToken ==
    \/ \E u \in Users, b \in TokenBodies,
          v \in Verdicts(options.canCreateInvite), t \in BOOLEAN :
          CreateInvite(u, b, v, t)
    \/ \E op \in {"activate", "callback"}, c \in Users \cup {NoSession},
          tok \in Tokens, o \in OverridesNow,
          v \in Verdicts(options.canAcceptInvite), d \in BOOLEAN :
          ActivateInvite(op, c, tok, o, v, d)
    \/ \E u \in Users \cup {NoSession}, o \in OverridesNow,
          v \in Verdicts(options.canAcceptInvite), d \in BOOLEAN :
          InvitesHook(u, o, v, d)
    \/ \E u \in Users, tok \in Tokens, v \in Verdicts(options.canCancelInvite) :
          CancelInvite(u, tok, v)
    \/ \E u \in Users, tok \in Tokens, v \in Verdicts(options.canRejectInvite) :
          RejectInvite(u, tok, v)
    \/ \E id \in Tokens : DeleteInviteUsesCompletes(id)
    \/ TickWall
    \/ TickLogical

\* the plugin with the token generators configured
SpecToken == InitToken /\ [][NextToken]_vars

\* the plugin in a deployment where an invited user has yet to sign up
SpecSignUp == InitSignUp /\ [][Next]_vars

\* The plugin configurations explored for the maxUses a row gets: the
\* usual one, and a defaultMaxUses of zero (InviteOptions.defaultMaxUses is
\* typed number, nothing checks it).
MaxUsesConfigurations ==
    {UsualOptions, [UsualOptions EXCEPT !.defaultMaxUses = Some(0)]}

InitMaxUses ==
    /\ options \in MaxUsesConfigurations
    /\ accounts = Users
    /\ Fresh

NextMaxUses ==
    \/ \E u \in Users, b \in MaxUsesBodies,
          v \in Verdicts(options.canCreateInvite), t \in BOOLEAN :
          CreateInvite(u, b, v, t)
    \/ \E op \in {"activate", "callback"}, c \in Users \cup {NoSession},
          tok \in Tokens, o \in OverridesNow,
          v \in Verdicts(options.canAcceptInvite), d \in BOOLEAN :
          ActivateInvite(op, c, tok, o, v, d)
    \/ \E u \in Users \cup {NoSession}, o \in OverridesNow,
          v \in Verdicts(options.canAcceptInvite), d \in BOOLEAN :
          InvitesHook(u, o, v, d)
    \/ \E u \in Users, tok \in Tokens, v \in Verdicts(options.canCancelInvite) :
          CancelInvite(u, tok, v)
    \/ \E u \in Users, tok \in Tokens, v \in Verdicts(options.canRejectInvite) :
          RejectInvite(u, tok, v)
    \/ \E id \in Tokens : DeleteInviteUsesCompletes(id)
    \/ TickWall

\* the plugin asked for invitations with every maxUses the schema accepts
SpecMaxUses == InitMaxUses /\ [][NextMaxUses]_vars

\* ------------------------------------------------------ resolveInviteOptions
\* the keys resolveInviteOptions gives a default
DefaultedKeys ==
    { "getDate", "invitationTokenExpiresIn", "defaultShareInviterName",
      "defaultSenderResponse", "defaultSenderResponseRedirect",
      "defaultTokenType", "defaultRedirectToSignIn", "defaultRedirectToSignUp",
      "canCreateInvite", "canAcceptInvite", "canCancelInvite",
      "canRejectInvite" }

\* the default of each key, as the source writes it
DefaultOf ==
    [ getDate |-> "() => new Date()",
      invitationTokenExpiresIn |-> "60 * 60",
      defaultShareInviterName |-> "true",
      defaultSenderResponse |-> "token",
      defaultSenderResponseRedirect |-> "signUp",
      defaultTokenType |-> "token",
      defaultRedirectToSignIn |-> "/auth/sign-in",
      defaultRedirectToSignUp |-> "/auth/sign-up",
      canCreateInvite |-> "true",
      canAcceptInvite |-> "true",
      canCancelInvite |-> "true",
      canRejectInvite |-> "true" ]

\* An InviteOptions value, as far as the defaulted keys go: a key is not in
\* the object ("absent"), in it with the value undefined ("undefined"), or
\* in it with a value of the caller ("caller").  At most MaxKeysPassed keys
\* are in the object.
InviteOptionsValues ==
    { o \in [DefaultedKeys -> {"absent", "undefined", "caller"}] :
        Cardinality({k \in DefaultedKeys : o[k] # "absent"}) <= MaxKeysPassed }

\* opts.key: undefined for a key that is not in the object
Get(opts, k) == IF opts[k] = "absent" THEN "undefined" ELSE opts[k]

\* resolveInviteOptions: { key: opts.key ?? default, ..., ...opts }.  The
\* spread comes last and copies every key the object has, a key whose value
\* is undefined included.
resolveInviteOptions(opts) ==
    [ k \in DefaultedKeys |->
        IF opts[k] # "absent" THEN opts[k]
        ELSE IF Get(opts, k) # "undefined" THEN Get(opts, k)
        ELSE DefaultOf[k] ]

\* invite(opts): the plugin is constructed with opts
ResolveInviteOptions(opts) ==
    /\ last' = [ op |-> "resolveInviteOptions", given |-> opts,
                 resolved |-> resolveInviteOptions(opts) ]
    /\ UNCHANGED << options, inflight, invites, uses, role, accounts,
                    inviteCookie, wallClock, logicalClock, nextId,
                    pendingDeletes >>

InitOptions ==
    /\ options = DefaultOptions
    /\ accounts = Users
    /\ Fresh

NextOptions == \E opts \in InviteOptionsValues : ResolveInviteOptions(opts)

\* option resolution on its own
SpecOptions == InitOptions /\ [][NextOptions]_vars

TypeOK ==
    /\ options \in Configurations \cup DeliveryConfigurations
                   \cup TokenConfigurations \cup AcceptConfigurations
                   \cup MaxUsesConfigurations
    /\ accounts \subseteq Users
    /\ \A i \in invites : i.token \in Tokens /\ i.id = i.token
    /\ \A r \in uses : r.inviteId \in Tokens
    /\ role \in [Users -> {InitialRole} \cup InviteRoles]
    /\ inviteCookie \in {NoCookie} \cup Tokens
    /\ pendingDeletes \subseteq Tokens
    /\ \A u \in Users : inflight[u].pc \in {"idle", "checked", "done"}

\* =============================================================== claims
RedeemOps == {"activate", "callback"}

\* the rows of inviteUse for an invitation, before and after a step
UsesOf(inviteId) == {r \in uses : r.inviteId = inviteId}
UsesOfAfter(inviteId) == {r \in uses' : r.inviteId = inviteId}
\* the database and the roles are as they were
NothingChanged == role' = role /\ invites' = invites /\ uses' = uses

\* beforeAcceptInvite returned no replacement in this call
NoReplacement(o) == ~options.beforeAcceptInvite \/ o = NoOverride

\* the accept policy resolves to true for this call
AcceptResolvesTrue(v) ==
    \/ options.canAcceptInvite = "true"
    \/ IsFunction(options.canAcceptInvite) /\ v

\* C1: an invitation with maxUses = N >= 1 is redeemed by a signed-in,
\* permitted user before expiry exactly as long as fewer than N redemptions
\* have succeeded: such an attempt succeeds, a success that is not the Nth
\* adds one use and keeps the invitation, the Nth success deletes the
\* invitation, and an attempt with a token that names no invitation (as after
\* the Nth success) fails with INVALID_TOKEN and changes no role.
C1_SequentialUseLimit ==
    [][\A op \in {last'.op} \cap RedeemOps, c \in Users, tok \in Tokens,
          o \in OverridesNow, v \in Verdicts(options.canAcceptInvite),
          d \in BOOLEAN :
        ActivateInvite(op, c, tok, o, v, d) =>
          LET inv == findInvitation(tok)
              n == Cardinality(UsesOf(inv.id))
          IN  IF inv = Null
              THEN /\ last'.status = "error"
                   /\ last'.errorCode = "INVALID_TOKEN"
                   /\ role' = role
              ELSE ( /\ inv.maxUses # Infinity
                     /\ NoReplacement(o)
                     /\ inv.email \in {NoEmail, EmailOf[c]}
                     /\ AcceptResolvesTrue(v)
                     /\ GetDate <= inv.expiresAt )
                   => /\ last'.status = "ok"
                      /\ last'.message = "Invite activated successfully"
                      /\ role'[c] = inv.role
                      /\ n < inv.maxUses
                      /\ IF n = inv.maxUses - 1
                         THEN \A i \in invites' : i.token # tok
                         ELSE /\ inv \in invites'
                              /\ Cardinality(UsesOfAfter(inv.id)) = n + 1
    ]_vars

\* a redemption has just succeeded and deleted the only invitation created
C1_Witness ==
    /\ last.op \in RedeemOps
    /\ last.message = "Invite activated successfully"
    /\ nextId > 1
    /\ invites = {}
    /\ \E u \in Users : role[u] \in InviteRoles

\* a redemption attempt of account c (NoSession: no account) with token tok
\* on any entry point: POST activate, GET callback, or the post-auth hook
\* of a browser whose cookie holds tok
RedeemAttempt(c, tok, o, v) ==
    \/ \E op \in {last'.op} \cap RedeemOps, d \in BOOLEAN :
          ActivateInvite(op, c, tok, o, v, d)
    \/ /\ last'.op = "hook"
       /\ c \in Users
       /\ tok = inviteCookie
       /\ \E d \in BOOLEAN : InvitesHook(c, o, v, d)

\* the response reports a completed redemption
Redeemed(r) == r.message \in {"Invite activated successfully", "redirect"}

\* the invitation is found, has uses left and has not expired
Valid(inv) ==
    /\ inv # Null
    /\ Cardinality(UsesOf(inv.id)) < inv.maxUses
    /\ GetDate <= inv.expiresAt

\* C2: when a redemption that is the last permitted use (timesUsed =
\* maxUses - 1) reports success, the invitation row and every use row of
\* the invitation are deleted and no deletion of use rows is still pending.
C2_LastUseCleanupComplete ==
    [][\A c \in Users, tok \in Tokens, o \in OverridesNow,
          v \in Verdicts(options.canAcceptInvite) :
        LET inv == findInvitation(tok)
        IN  ( /\ RedeemAttempt(c, tok, o, v)
              /\ Redeemed(last')
              /\ inv.maxUses # Infinity
              /\ Cardinality(UsesOf(inv.id)) = inv.maxUses - 1 )
            => /\ \A i \in invites' : i.token # tok
               /\ UsesOfAfter(inv.id) = {}
    ]_vars

\* C3: a redemption that succeeds with timesUsed # maxUses - 1 inserts
\* exactly one use row {inviteId, usedByUserId = redeemer, usedAt =
\* getDate()} and leaves the invitation in place; the redemption that
\* succeeds with timesUsed = maxUses - 1 leaves neither the invitation nor
\* any use row of it.
C3_NonLastRedemption ==
    [][\A c \in Users, tok \in Tokens, o \in OverridesNow,
          v \in Verdicts(options.canAcceptInvite) :
        LET inv == findInvitation(tok)
            n == Cardinality(UsesOf(inv.id))
        IN  ( /\ RedeemAttempt(c, tok, o, v)
              /\ Redeemed(last')
              /\ NoReplacement(o) )
            => IF inv.maxUses = Infinity \/ n # inv.maxUses - 1
               THEN /\ invites' = invites
                    /\ uses \subseteq uses'
                    /\ Cardinality(uses' \ uses) = 1
                    /\ \A r \in uses' \ uses :
                          /\ r.inviteId = inv.id
                          /\ r.usedByUserId = c
                          /\ r.usedAt = GetDate
               ELSE /\ \A i \in invites' : i.token # tok
                    /\ UsesOfAfter(inv.id) = {}
    ]_vars

AcceptYieldsFalse(v) ==
    \/ options.canAcceptInvite = "false"
    \/ options.canAcceptInvite = "fn" /\ ~v

\* C6: when canAcceptInvite evaluates to false for the redeemer, the
\* redemption fails with CANT_ACCEPT_INVITE, the predicate was called
\* exactly once, and no role, use row or invitation changes.
C6_AcceptDenied ==
    [][\A c \in Users, tok \in Tokens, o \in OverridesNow,
          v \in Verdicts(options.canAcceptInvite) :
        LET inv == findInvitation(tok)
            checked == IF NoReplacement(o) THEN UserRecord(c) ELSE o
        IN  RedeemAttempt(c, tok, o, v)
            => /\ ( /\ Valid(inv)
                    /\ inv.email \in {NoEmail, checked.email}
                    /\ AcceptYieldsFalse(v) )
                  => /\ last'.errorCode = "CANT_ACCEPT_INVITE"
                     /\ last'.status = "error"
                     /\ IsFunction(options.canAcceptInvite) => last'.calls = 1
                     /\ NothingChanged
               /\ last'.errorCode = "CANT_ACCEPT_INVITE"
                  => AcceptYieldsFalse(v) /\ NothingChanged
    ]_vars

\* a function policy was called once, refused, and nothing was granted
C6_Witness ==
    /\ last.errorCode = "CANT_ACCEPT_INVITE"
    /\ last.calls = 1
    /\ invites # {}
    /\ uses = {}
    /\ \A u \in Users : role[u] = InitialRole

\* C7: a can* option that is a function returning a promise of boolean
\* decides by the resolved value: resolved false refuses the redemption
\* with CANT_ACCEPT_INVITE and no role mutation, and likewise refuses
\* create, cancel and reject.
C7_AsyncPolicy ==
    [][/\ \A c \in Users, tok \in Tokens, o \in OverridesNow :
            LET inv == findInvitation(tok)
                checked == IF NoReplacement(o) THEN UserRecord(c) ELSE o
            IN  ( /\ RedeemAttempt(c, tok, o, FALSE)
                  /\ options.canAcceptInvite = "async"
                  /\ Valid(inv)
                  /\ inv.email \in {NoEmail, checked.email} )
                => /\ last'.errorCode = "CANT_ACCEPT_INVITE"
                   /\ NothingChanged
       /\ \A u \in Users, b \in Bodies, t \in BOOLEAN :
            ( /\ last'.op = "create"
              /\ CreateInvite(u, b, FALSE, t)
              /\ options.canCreateInvite = "async" )
            => last'.message = "INSUFFICIENT_PERMISSIONS" /\ NothingChanged
       /\ \A u \in Users, tok \in Tokens :
            ( /\ last'.op = "cancel"
              /\ CancelInvite(u, tok, FALSE)
              /\ options.canCancelInvite = "async" )
            => last'.status = "error" /\ NothingChanged
       /\ \A u \in Users, tok \in Tokens :
            ( /\ last'.op = "reject"
              /\ RejectInvite(u, tok, FALSE)
              /\ options.canRejectInvite = "async" )
            => last'.status = "error" /\ NothingChanged
    ]_vars

\* the cancel policy resolves to true for this call
CancelResolvesTrue(v) ==
    \/ options.canCancelInvite = "true"
    \/ IsFunction(options.canCancelInvite) /\ v

\* C8: a cancel of an existing invitation succeeds only if the caller is
\* its creator and canCancelInvite evaluates to true; every refused cancel
\* fails with INSUFFICIENT_PERMISSIONS and leaves the invitation and its
\* use rows unchanged.
C8_CancelAuthorization ==
    [][\A u \in Users, tok \in Tokens, v \in Verdicts(options.canCancelInvite) :
        LET invite == findInvitation(tok)
        IN  ( /\ last'.op = "cancel"
              /\ CancelInvite(u, tok, v)
              /\ invite # Null )
            => IF invite.createdByUserId = u /\ CancelResolvesTrue(v)
               THEN last'.status = "ok"
               ELSE /\ last'.status = "error"
                    /\ last'.errorCode = "INSUFFICIENT_PERMISSIONS"
                    /\ NothingChanged
    ]_vars

\* a cancel was refused and the invitation is still there
C8_Witness ==
    /\ last.op = "cancel"
    /\ last.errorCode = "INSUFFICIENT_PERMISSIONS"
    /\ invites # {}

\* C9: after a successful cancel no invitation has the token and no use
\* row has its id; a cancel of a token that matches no invitation, as every
\* later cancel of a cancelled token is, fails with INVALID_TOKEN; a token
\* is never given to a second invitation.
C9_CancelEffect ==
    [][/\ \A u \in Users, tok \in Tokens, v \in Verdicts(options.canCancelInvite) :
            LET invite == findInvitation(tok)
            IN  (last'.op = "cancel" /\ CancelInvite(u, tok, v))
                => /\ invite = Null
                      => /\ last'.status = "error"
                         /\ last'.errorCode = "INVALID_TOKEN"
                         /\ NothingChanged
                   /\ last'.status = "ok"
                      => /\ invite # Null
                         /\ \A i \in invites' : i.token # tok
                         /\ UsesOfAfter(invite.id) = {}
       /\ \A i \in invites' \ invites :
            i.token >= nextId /\ i.token < nextId' /\ i.id = i.token
    ]_vars

\* a cancel succeeded on an invitation that had been used
C9_Witness ==
    /\ last.op = "cancel"
    /\ last.status = "ok"
    /\ invites = {}
    /\ uses = {}
    /\ \E u \in Users : role[u] \in InviteRoles

\* the reject policy resolves to true for this call
RejectResolvesTrue(v) ==
    \/ options.canRejectInvite = "true"
    \/ IsFunction(options.canRejectInvite) /\ v

\* C10: a reject of an existing invitation succeeds only if the invitation
\* is private, its email is the caller's and canRejectInvite evaluates to
\* true; otherwise it fails with CANT_REJECT_INVITE and the invitation and
\* its use rows stay as they were (as redeemable as before).
C10_RejectAuthorization ==
    [][\A u \in Users, tok \in Tokens, v \in Verdicts(options.canRejectInvite) :
        LET invitation == findInvitation(tok)
        IN  ( /\ last'.op = "reject"
              /\ RejectInvite(u, tok, v)
              /\ invitation # Null )
            => IF /\ invitation.email # NoEmail
                  /\ invitation.email = EmailOf[u]
                  /\ RejectResolvesTrue(v)
               THEN last'.status = "ok"
               ELSE /\ last'.status = "error"
                    /\ last'.errorCode = "CANT_REJECT_INVITE"
                    /\ NothingChanged
                    /\ invitation \in invites'
    ]_vars

\* a reject of a public invitation was refused and the invitation is there
C10_Witness ==
    /\ last.op = "reject"
    /\ last.errorCode = "CANT_REJECT_INVITE"
    /\ \E i \in invites : i.email = NoEmail

\* a request that carries a token: POST activate, GET callback, reject or
\* cancel, by account c (NoSession: no account)
TokenRequest(c, tok) ==
    \/ \E op \in {last'.op} \cap RedeemOps, o \in OverridesNow,
          v \in Verdicts(options.canAcceptInvite), d \in BOOLEAN :
          ActivateInvite(op, c, tok, o, v, d)
    \/ /\ last'.op = "reject"
       /\ \E v \in Verdicts(options.canRejectInvite) : RejectInvite(c, tok, v)
    \/ /\ last'.op = "cancel"
       /\ \E v \in Verdicts(options.canCancelInvite) : CancelInvite(c, tok, v)

\* C11: a successful reject leaves no invitation with the token and no use
\* row with its id and changes no role; every redemption (POST activate, GET
\* callback), reject or cancel with a token that names no invitation, as the
\* token of a rejected invitation does from then on, fails with
\* INVALID_TOKEN and changes nothing; a token is never given to a second
\* invitation.
C11_RejectEffect ==
    [][/\ \A u \in Users, tok \in Tokens, v \in Verdicts(options.canRejectInvite) :
            LET invitation == findInvitation(tok)
            IN  ( /\ last'.op = "reject"
                  /\ RejectInvite(u, tok, v)
                  /\ last'.status = "ok" )
                => /\ invitation # Null
                   /\ \A i \in invites' : i.token # tok
                   /\ UsesOfAfter(invitation.id) = {}
                   /\ role' = role
       /\ \A c \in Users \cup {NoSession}, tok \in Tokens :
            (TokenRequest(c, tok) /\ findInvitation(tok) = Null)
            => /\ last'.status = "error"
               /\ last'.errorCode = "INVALID_TOKEN"
               /\ NothingChanged
               /\ inviteCookie' = inviteCookie
       /\ \A i \in invites' \ invites : \A j \in invites : j.token # i.token
       /\ \A i \in invites' \ invites : i.token = nextId /\ nextId' > nextId
    ]_vars

\* the invitee rejected an invitation that had been used: it and its use
\* row are gone
C11_Witness ==
    /\ last.op = "reject"
    /\ last.status = "ok"
    /\ invites = {}
    /\ uses = {}
    /\ \E u \in Users : role[u] \in InviteRoles

\* C12: when a caller with no session activates a token that is found, not
\* exhausted and not expired, the pending-redemption cookie is set to the
\* token, the response tells the caller to sign in or up, no role,
\* invitation or use row changes and no accept hook or onInvitationUsed
\* callback runs.
C12_UnauthenticatedActivation ==
    [][\A op \in {last'.op} \cap RedeemOps, tok \in Tokens, o \in OverridesNow,
          v \in Verdicts(options.canAcceptInvite), d \in BOOLEAN :
        ( /\ ActivateInvite(op, NoSession, tok, o, v, d)
          /\ Valid(findInvitation(tok)) )
        => /\ inviteCookie' = tok
           /\ last'.status = "ok"
           /\ last'.message = "SIGN_IN_UP_REQUIRED"
           /\ NothingChanged
           /\ accounts' = accounts
           /\ pendingDeletes' = pendingDeletes
           /\ last'.hooks = << >>
           /\ last'.calls = 0
    ]_vars

\* an activation without a session has set the cookie and granted nothing
C12_Witness ==
    /\ last.op \in RedeemOps
    /\ last.message = "SIGN_IN_UP_REQUIRED"
    /\ inviteCookie # NoCookie
    /\ \E i \in invites : i.token = inviteCookie
    /\ uses = {}
    /\ \A u \in Users : role[u] = InitialRole

\* C13: when the browser holds the pending cookie of an invitation that is
\* still valid and the invited user (any user for a public invitation)
\* completes a sign-up or a sign-in that the accept policy allows, the
\* post-auth hook consumes the invitation: the account ends with role =
\* invitation.role, the use accounting is applied once (one use row
\* inserted, or the invitation deleted at the last use), the cookie is
\* cleared and the response redirects to invitation.redirectToAfterUpgrade.
C13_DeferredRoundTrip ==
    [][\A u \in Users, o \in OverridesNow,
          v \in Verdicts(options.canAcceptInvite), d \in BOOLEAN :
        LET inv == findInvitation(inviteCookie)
            n == Cardinality(UsesOf(inv.id))
        IN  ( /\ last'.op = "hook"
              /\ InvitesHook(u, o, v, d)
              /\ inviteCookie # NoCookie
              /\ Valid(inv)
              /\ NoReplacement(o)
              /\ inv.email \in {NoEmail, EmailOf[u]}
              /\ AcceptResolvesTrue(v) )
            => /\ last'.status = "ok"
               /\ u \in accounts'
               /\ role' = [role EXCEPT ![u] = inv.role]
               /\ IF n = inv.maxUses - 1
                  THEN /\ invites' = invites \ {inv}
                       /\ uses' \subseteq uses
                  ELSE /\ invites' = invites
                       /\ uses \subseteq uses'
                       /\ Cardinality(uses' \ uses) = 1
                       /\ \A r \in uses' \ uses :
                            r.inviteId = inv.id /\ r.usedByUserId = u
               /\ inviteCookie' = NoCookie
               /\ last'.redirectTo = inv.redirectToAfterUpgrade
    ]_vars

\* the invited user, who had no account when the inviter created the
\* invitation, has signed up with the cookie set: the role is granted, the
\* cookie is cleared and the response redirects to the invitation's page
C13_Witness ==
    /\ last.op = "hook"
    /\ last.status = "ok"
    /\ last.redirectTo = "/welcome"
    /\ "u2" \in accounts
    /\ role["u2"] \in InviteRoles
    /\ role["u1"] = InitialRole
    /\ inviteCookie = NoCookie
    /\ invites = {}

\* C14: whenever the post-auth hook runs with a pending-redemption cookie
\* present, the cookie is cleared when the hook finishes, on success and on
\* a terminal failure alike (invitation gone, expired, exhausted,
\* INVALID_EMAIL, CANT_ACCEPT_INVITE).
C14_CookieNeverLingers ==
    [][\A u \in Users, o \in OverridesNow,
          v \in Verdicts(options.canAcceptInvite), d \in BOOLEAN :
        ( /\ last'.op = "hook"
          /\ InvitesHook(u, o, v, d)
          /\ inviteCookie # NoCookie
          /\ \/ last'.status = "ok"
             \/ last'.message \in {"INVALID_OR_EXPIRED_INVITE",
                                   "NO_USES_LEFT_FOR_INVITE",
                                   "INVALID_EMAIL", "CANT_ACCEPT_INVITE"} )
        => inviteCookie' = NoCookie
    ]_vars

\* C15: a post-auth hook that runs with no pending cookie, or after an
\* authentication event that left no new session, changes no role,
\* invitation, use row or cookie and raises no error.
C15_HookNoopWithoutCookie ==
    [][\A u \in Users \cup {NoSession}, o \in OverridesNow,
          v \in Verdicts(options.canAcceptInvite), d \in BOOLEAN :
        ( /\ last'.op = "hook"
          /\ InvitesHook(u, o, v, d)
          /\ (inviteCookie = NoCookie \/ u = NoSession) )
        => /\ NothingChanged
           /\ inviteCookie' = inviteCookie
           /\ pendingDeletes' = pendingDeletes
           /\ last'.status = "noop"
           /\ last'.hooks = << >>
           /\ last'.redirectTo = ""
    ]_vars

\* a user signed up with no cookie set while an invitation existed, and the
\* hook did nothing
C15_Witness ==
    /\ last.op = "hook"
    /\ last.status = "noop"
    /\ inviteCookie = NoCookie
    /\ "u2" \in accounts
    /\ invites # {}
    /\ uses = {}
    /\ \A u \in Users : role[u] = InitialRole

\* the delivery-configuration check of create passes for this body
DeliveryConfigured(b) ==
    b.email = NoEmail \/ options.sendUserInvitation \/ options.sendUserRoleUpgrade

\* the create policy resolves to false for this call
CreateResolvesFalse(v) ==
    \/ options.canCreateInvite = "false"
    \/ IsFunction(options.canCreateInvite) /\ ~v

\* C16: whenever create fails with 'Invitation email is not enabled', no
\* Invitation row has been persisted by the request, whichever delivery
\* functions are configured and whether or not the invited email has an
\* account.
C16_UndeliverableRefusedBeforePersistence ==
    [][\A u \in Users, b \in Bodies, v \in Verdicts(options.canCreateInvite),
          t \in BOOLEAN :
        ( /\ last'.op = "create"
          /\ CreateInvite(u, b, v, t)
          /\ last'.message = "Invitation email is not enabled" )
        => invites' = invites
    ]_vars

\* C17: when the delivery function throws during the create of a private
\* invite, the request fails with ERROR_SENDING_THE_INVITATION_EMAIL and the
\* row the request created stays persisted under its token: it has the
\* body's email and role, at least one use, no use row, and an expiresAt
\* after Date.now(), so that it is redeemable with its token.
C17_DeliveryFailureKeepsInvite ==
    [][\A u \in Users, b \in Bodies, v \in Verdicts(options.canCreateInvite) :
        ( /\ last'.op = "create"
          /\ CreateInvite(u, b, v, TRUE)
          /\ b.email # NoEmail
          /\ ~CreateResolvesFalse(v)
          /\ SendFn(NewAccount(b.email)) # "" )
        => /\ last'.status = "error"
           /\ last'.message = "ERROR_SENDING_THE_INVITATION_EMAIL"
           /\ Len(last'.sent) = 1
           /\ invites \subseteq invites'
           /\ \E i \in invites' \ invites :
                /\ invites' = invites \cup {i}
                /\ i.token = nextId
                /\ i.email = b.email
                /\ i.role = b.role
                /\ i.createdByUserId = u
                /\ i.maxUses >= 1
                /\ UsesOfAfter(i.id) = {}
                /\ i.expiresAt > wallClock
           /\ uses' = uses /\ role' = role
    ]_vars

\* the delivery of the only invitation created failed and the invitation is
\* in the store, unexpired and unused
C17_Witness ==
    /\ last.op = "create"
    /\ last.message = "ERROR_SENDING_THE_INVITATION_EMAIL"
    /\ \E i \in invites :
          i.email # NoEmail /\ GetDate <= i.expiresAt /\ UsesOf(i.id) = {}

\* C18: when the create policy is reached (the delivery-configuration check
\* has passed) and yields false, as a boolean or as the value of a promise,
\* create fails with INSUFFICIENT_PERMISSIONS, a function policy having been
\* called once; no Invitation row is persisted, no delivery function is
\* invoked and no create hook runs.
C18_CreateDenied ==
    [][\A u \in Users, b \in Bodies, v \in Verdicts(options.canCreateInvite),
          t \in BOOLEAN :
        ( /\ last'.op = "create"
          /\ CreateInvite(u, b, v, t) )
        => /\ (DeliveryConfigured(b) /\ CreateResolvesFalse(v))
                => /\ last'.status = "error"
                   /\ last'.message = "INSUFFICIENT_PERMISSIONS"
                   /\ IsFunction(options.canCreateInvite) => last'.calls = 1
           /\ CreateResolvesFalse(v)
                => /\ invites' = invites
                   /\ nextId' = nextId
                   /\ last'.sent = << >>
                   /\ last'.hooks = << >>
                   /\ uses' = uses /\ role' = role
    ]_vars

\* a function policy was called once and refused the create
C18_Witness ==
    /\ last.op = "create"
    /\ last.message = "INSUFFICIENT_PERMISSIONS"
    /\ last.calls = 1
    /\ invites = {}
    /\ nextId = 1

\* C19: a successful private create invokes exactly one delivery function,
\* once, with the token of the persisted invitation, the invited email and
\* role, and newAccount = true exactly when no account has that email at
\* creation time; a successful public create invokes no delivery function
\* and returns the token of the persisted invitation to the caller.
C19_DeliveryOnCreate ==
    [][\A u \in Users, b \in Bodies, v \in Verdicts(options.canCreateInvite),
          t \in BOOLEAN :
        ( /\ last'.op = "create"
          /\ CreateInvite(u, b, v, t)
          /\ last'.status = "ok" )
        => \E i \in invites' \ invites :
             /\ invites' = invites \cup {i}
             /\ i.email = b.email /\ i.role = b.role
             /\ IF b.email # NoEmail
                THEN /\ Len(last'.sent) = 1
                     /\ last'.sent[1].fn \in {"sendUserInvitation",
                                              "sendUserRoleUpgrade"}
                     /\ last'.sent[1].token = i.token
                     /\ last'.sent[1].email = b.email
                     /\ last'.sent[1].role = b.role
                     /\ last'.sent[1].newAccount
                          = (\A a \in accounts : EmailOf[a] # b.email)
                     /\ last'.returned = NoCookie
                ELSE /\ last'.sent = << >>
                     /\ last'.returned = i.token
    ]_vars

\* an invitation for an email without account was delivered with newAccount
\* = true and its token
C19_Witness ==
    /\ last.op = "create"
    /\ last.status = "ok"
    /\ Len(last.sent) = 1
    /\ last.sent[1].newAccount
    /\ \E i \in invites :
          /\ i.token = last.sent[1].token
          /\ i.email = last.sent[1].email
          /\ \A a \in accounts : EmailOf[a] # i.email

C21_ExpiryOnLogicalClock ==
    [][\A u \in Users, b \in Bodies, v \in Verdicts(options.canCreateInvite),
          t \in BOOLEAN :
        CreateInvite(u, b, v, t) =>
          \A i \in invites' \ invites :
              /\ i.createdAt = GetDate
              /\ i.expiresAt = GetDate + resolveInvitePayload(b).expiresIn[1]
    ]_vars

\* how often x occurs in the sequence s
Count(s, x) == Cardinality({k \in 1..Len(s) : s[k] = x})

\* C22: a create that persists a row selects the token generator by the
\* effective token type: 'custom' with options.generateToken calls that
\* function exactly once and stores (and for a public invite returns) its
\* result; 'custom' without it and 'token' store a 24-character id; 'code'
\* stores 6 characters from 0-9 and A-Z; the generator is never undefined.
C22_TokenGenerator ==
    [][\A u \in Users, b \in TokenBodies,
          v \in Verdicts(options.canCreateInvite), t \in BOOLEAN :
        CreateInvite(u, b, v, t) =>
          \A i \in invites' \ invites :
            LET tokenType == IF b.tokenType # "" THEN b.tokenType
                             ELSE options.defaultTokenType
                f == i.tokenFormat
            IN  /\ f.fn # "undefined"
                /\ Count(last'.hooks, f.fn) = 1
                /\ b.email = NoEmail => last'.returned = i.token
                /\ IF tokenType = "custom" /\ options.generateToken
                   THEN f.fn = "generateToken"
                   ELSE /\ Count(last'.hooks, "generateToken") = 0
                        /\ IF tokenType = "code"
                           THEN f.length = 6 /\ f.alphabet = "0-9,A-Z"
                           ELSE f.fn = "generateId" /\ f.length = 24
    ]_vars

\* a custom token type met a configured generateToken: the stored token is
\* the one the function returned
C22_Witness ==
    /\ last.op = "create"
    /\ last.status = "ok"
    /\ options.generateToken
    /\ \E i \in invites : i.tokenFormat.fn = "generateToken"

\* C23: onInvitationUsed is invoked exactly once in a redemption that
\* reports success and never in one that fails; when it throws or rejects,
\* a redemption attempt that passes every check still reports success, the
\* redeemer has the invited role and the use is accounted for: one use row
\* more, or at the last use no invitation any more.
C23_NotificationFailureIsolated ==
    [][\A c \in Users, tok \in Tokens, o \in OverridesNow,
          v \in Verdicts(options.canAcceptInvite) :
        LET inv == findInvitation(tok)
            n == Cardinality(UsesOf(inv.id))
        IN  RedeemAttempt(c, tok, o, v) =>
              /\ Count(last'.hooks, "onInvitationUsed") =
                    (IF Redeemed(last') /\ options.onInvitationUsed # "none"
                     THEN 1 ELSE 0)
              /\ ( /\ options.onInvitationUsed \in {"throws", "rejects"}
                    /\ Valid(inv)
                    /\ NoReplacement(o)
                    /\ inv.email \in {NoEmail, EmailOf[c]}
                    /\ AcceptResolvesTrue(v) )
                 => /\ Redeemed(last')
                    /\ last'.status = "ok"
                    /\ role'[c] = inv.role
                    /\ IF n = inv.maxUses - 1
                       THEN \A i \in invites' : i.token # tok
                       ELSE /\ inv \in invites'
                            /\ Cardinality(UsesOfAfter(inv.id)) = n + 1
    ]_vars

\* a redemption has succeeded although onInvitationUsed failed
C23_Witness ==
    /\ options.onInvitationUsed \in {"throws", "rejects"}
    /\ Redeemed(last)
    /\ last.status = "ok"
    /\ Count(last.hooks, "onInvitationUsed") = 1
    /\ \E u \in Users : role[u] \in InviteRoles

\* x occurs in the sequence s before y, if both occur
Precedes(s, x, y) ==
    \A j, k \in 1..Len(s) : (s[j] = x /\ s[k] = y) => j < k

\* C24: in every successful redemption, by POST activate, the GET callback
\* or the post-auth hook, each configured callback is invoked exactly once
\* and in the order beforeAcceptInvite, the role update and the use
\* accounting, afterAcceptInvite, onInvitationUsed.
C24_AcceptCallbackOrder ==
    Redeemed(last) =>
      LET h == last.hooks
      IN  /\ Count(h, "beforeAcceptInvite") =
                (IF options.beforeAcceptInvite THEN 1 ELSE 0)
          /\ Count(h, "afterAcceptInvite") =
                (IF options.inviteHooks THEN 1 ELSE 0)
          /\ Count(h, "onInvitationUsed") =
                (IF options.onInvitationUsed # "none" THEN 1 ELSE 0)
          /\ Count(h, "updateUser") = 1
          /\ Count(h, "createInviteUse") + Count(h, "deleteInvitation") = 1
          /\ Precedes(h, "beforeAcceptInvite", "updateUser")
          /\ \A w \in {"updateUser", "createInviteUse", "deleteInviteUses",
                        "deleteInvitation"} :
                /\ Precedes(h, w, "afterAcceptInvite")
                /\ Precedes(h, w, "onInvitationUsed")
          /\ Precedes(h, "afterAcceptInvite", "onInvitationUsed")

\* the hooks of a cancel or reject bracket the deletion in the log h of a
\* handler that configured them: each once, the first before both
\* deletions and the second after them
Brackets(h, before, after) ==
    /\ Count(h, before) = (IF options.inviteHooks THEN 1 ELSE 0)
    /\ Count(h, after) = (IF options.inviteHooks THEN 1 ELSE 0)
    /\ Count(h, "deleteInviteUses") = 1
    /\ Count(h, "deleteInvitation") = 1
    /\ \A w \in {"deleteInviteUses", "deleteInvitation"} :
          Precedes(h, before, w) /\ Precedes(h, w, after)

\* C25: a successful cancel (reject) invokes beforeCancelInvite
\* (beforeRejectInvite) exactly once before anything of the invitation is
\* deleted and afterCancelInvite (afterRejectInvite) exactly once after the
\* invitation and its uses have been deleted; a failed cancel or reject
\* invokes no hook and deletes nothing.
C25_HooksBracketDeletion ==
    [][\A u \in Users, tok \in Tokens :
        LET inv == findInvitation(tok)
            Bracketed(before, after) ==
                IF last'.status = "ok"
                THEN /\ inv \in invites
                     /\ \A i \in invites' : i.token # tok
                     /\ UsesOfAfter(inv.id) = {}
                     /\ Brackets(last'.hooks, before, after)
                ELSE /\ last'.hooks = << >>
                     /\ invites' = invites
                     /\ uses' = uses
        IN  /\ (\E v \in Verdicts(options.canCancelInvite) :
                    CancelInvite(u, tok, v))
               => Bracketed("beforeCancelInvite", "afterCancelInvite")
            /\ (\E v \in Verdicts(options.canRejectInvite) :
                    RejectInvite(u, tok, v))
               => Bracketed("beforeRejectInvite", "afterRejectInvite")
    ]_vars

\* a cancel or a reject has succeeded with both hooks configured
C25_Witness ==
    /\ last.op \in {"cancel", "reject"}
    /\ last.status = "ok"
    /\ options.inviteHooks
    /\ Len(last.hooks) = 4
    /\ invites = {}

\* the response rejects the attempt because the invitation has expired or
\* has no use left
RejectedAsSpent(r) ==
    r.message \in {"Invite token has expired",
                   "Invite token has already been used",
                   "INVALID_OR_EXPIRED_INVITE", "NO_USES_LEFT_FOR_INVITE"}

\* C26: a redemption attempt that is rejected because the invitation has
\* expired or has reached its usage limit deletes the invitation and its
\* use rows.
C26_SpentInviteDeleted ==
    [][\A c \in Users \cup {NoSession}, tok \in Tokens, o \in OverridesNow,
          v \in Verdicts(options.canAcceptInvite) :
        (RedeemAttempt(c, tok, o, v) /\ RejectedAsSpent(last'))
          => /\ \A i \in invites' : i.token # tok
             /\ UsesOfAfter(findInvitation(tok).id) = {}
    ]_vars

\* C27: with canAcceptInvite = ({ newAccount }) => newAccount no account
\* that exists already has its role changed by a request, neither by an
\* activation while signed in nor by a sign-in that follows an activation
\* without a session.
C27_ExistingAccountKeepsRole ==
    [][options.canAcceptInvite = "newAccount"
         => \A u \in accounts : role'[u] = role[u]]_vars

\* C30: after every successful redemption the account whose role the
\* redemption updated has the role of the invitation, no other role has
\* changed, and the user written into the session of the response carries
\* the role of the invitation.
C30_RoleAndSessionAgree ==
    [][\A c \in Users, tok \in Tokens, o \in OverridesNow,
          v \in Verdicts(options.canAcceptInvite) :
        LET inv == findInvitation(tok)
            userId == IF last'.op = "hook" THEN c
                      ELSE AfterBeforeAccept(UserRecord(c), o).id
        IN  (RedeemAttempt(c, tok, o, v) /\ Redeemed(last'))
              => /\ role'[userId] = inv.role
                 /\ \A u \in Users \ {userId} : role'[u] = role[u]
                 /\ last'.session # NoSessionData
                 /\ last'.session.role = inv.role
                 /\ last'.session.role = role'[userId]
    ]_vars

\* a redemption has succeeded: the redeemer went from the initial role to
\* the role of the invitation and the session shows that role
C30_Witness ==
    /\ Redeemed(last)
    /\ last.session # NoSessionData
    /\ last.session.id \in Users
    /\ role[last.session.id] \in InviteRoles
    /\ last.session.role = role[last.session.id]
    /\ \E u \in Users : role[u] = InitialRole

\* C28: an activation that has passed the count check is not checked again:
\* when it resumes it succeeds, gives its user the role of the invitation
\* and accounts for the use with the count it read, whatever other requests
\* have committed meanwhile.  So two activations of a maxUses = 1
\* invitation that both pass the check before either commits both succeed.
C28_CheckedActivationCommits ==
    [][\A u \in Users, v \in Verdicts(options.canAcceptInvite),
          d \in BOOLEAN :
        LET r == inflight[u]
        IN  ( /\ FinishActivate(u, v, d)
              /\ r.invitation.email \in {NoEmail, r.invitedUser.email}
              /\ AcceptResolvesTrue(v) )
            => /\ last'.status = "ok"
               /\ last'.message = "Invite activated successfully"
               /\ role'[r.invitedUser.id] = r.invitation.role
               /\ IF r.timesUsed = r.invitation.maxUses - 1
                  THEN \A i \in invites' : i.token # r.token
                  ELSE Cardinality(uses') = Cardinality(uses) + 1
    ]_vars

\* both users have redeemed the same maxUses = 1 invitation: each passed the
\* count check with no use counted, and both have the invited role
C28_Witness ==
    /\ \A u \in Users :
          /\ inflight[u].pc = "done"
          /\ inflight[u].invitation.maxUses = 1
          /\ inflight[u].timesUsed = 0
          /\ role[u] = inflight[u].invitation.role
    /\ \A u, w \in Users : inflight[u].invitation = inflight[w].invitation

\* C29: in every reachable state every stored invitation has fewer use rows
\* than its maxUses.
C29_NoInviteAtItsLimit ==
    \A i \in invites : countInvitationUses(i.id) < i.maxUses

\* the response reports that the invitation has no use left
ReportsExhaustion(r) ==
    r.message \in {"Invite token has already been used",
                   "NO_USES_LEFT_FOR_INVITE"}

\* C31: on POST activate, the GET callback and the post-auth hook, a
\* redemption attempt on an invitation that is both exhausted (as many use
\* rows as maxUses, or more) and expired is answered with the exhaustion
\* error, not with the expiry error.
C31_ExhaustionBeforeExpiry ==
    [][\A c \in Users \cup {NoSession}, tok \in Tokens, o \in OverridesNow,
          v \in Verdicts(options.canAcceptInvite) :
        LET inv == findInvitation(tok)
        IN  ( /\ RedeemAttempt(c, tok, o, v) \/ BeginActivate(c, tok, o)
              /\ inv # Null
              /\ countInvitationUses(inv.id) >= inv.maxUses
              /\ GetDate > inv.expiresAt )
            => ReportsExhaustion(last')
    ]_vars

\* C32: beforeAcceptInvite is invoked only once the email binding and the
\* accept policy have passed for the session user: a redemption that fails
\* with INVALID_EMAIL or CANT_ACCEPT_INVITE has not invoked it, and a
\* redemption succeeds only if the session user's own email satisfies the
\* binding, whatever record the hook returns.
C32_BeforeAcceptAfterChecks ==
    [][\A c \in Users, tok \in Tokens, o \in OverridesNow,
          v \in Verdicts(options.canAcceptInvite) :
        LET inv == findInvitation(tok)
        IN  RedeemAttempt(c, tok, o, v) =>
              /\ last'.errorCode \in {"INVALID_EMAIL", "CANT_ACCEPT_INVITE"}
                   => Count(last'.hooks, "beforeAcceptInvite") = 0
              /\ Redeemed(last') => ~EmailMismatch(inv, UserRecord(c))
    ]_vars

\* C33: in every reachable state every use row belongs to an invitation
\* that is still stored.
C33_NoOrphanedUses ==
    \A r \in uses : \E i \in invites : i.id = r.inviteId

C35_OptionResolutionTotal ==
    last.op = "resolveInviteOptions" =>
      \A k \in DefaultedKeys :
        /\ last.resolved[k] # "undefined"
        /\ last.resolved[k] =
             (IF last.given[k] = "caller" THEN "caller" ELSE DefaultOf[k])

\* C36: the maxUses of every stored invitation is an integer >= 1 or the
\* unbounded sentinel, whatever body the create schema accepted and whatever
\* the configuration.
C36_MaxUsesDomain ==
    \A i \in invites : i.maxUses = Infinity \/ i.maxUses >= 1

\* C37: in every create, beforeCreateInvite is invoked only if the delivery
\* configuration check and the create permission check have passed, and
\* before the invitation row is inserted; a create that succeeds invokes
\* afterCreateInvite (when configured) exactly once, after the row is
\* inserted and, for a private invite, after the delivery function has
\* returned; a create that fails, a throwing delivery included, does not
\* invoke afterCreateInvite.
C37_CreateHookOrder ==
    [][\A u \in Users, b \in Bodies, v \in Verdicts(options.canCreateInvite),
         t \in BOOLEAN :
        CreateInvite(u, b, v, t)
        => LET log == last'.hooks
               private == b.email # NoEmail
               sendFn == SendFn(NewAccount(b.email))
           IN  /\ Count(log, "beforeCreateInvite") > 0
                  => /\ ~(private /\ ~options.sendUserInvitation
                                  /\ ~options.sendUserRoleUpgrade)
                     /\ CreateAllowed(v)
                     /\ Count(log, "beforeCreateInvite") = 1
                     /\ Count(log, "createInvite") = 1
                     /\ Precedes(log, "beforeCreateInvite", "createInvite")
               /\ Count(log, "createInvite") = 1
                  => /\ invites' # invites
                     /\ options.inviteHooks
                        => Count(log, "beforeCreateInvite") = 1
               /\ last'.status = "ok"
                  => /\ Count(log, "afterCreateInvite")
                          = (IF options.inviteHooks THEN 1 ELSE 0)
                     /\ Count(log, "createInvite") = 1
                     /\ Precedes(log, "createInvite", "afterCreateInvite")
                     /\ private
                        => /\ ~t
                           /\ Count(log, sendFn) = 1
                           /\ Precedes(log, sendFn, "afterCreateInvite")
               /\ last'.status = "error"
                  => Count(log, "afterCreateInvite") = 0
    ]_vars

\* a private invite was created and delivered with the hooks configured:
\* both hooks were invoked, around the insertion and the delivery
C37_Witness ==
    /\ last.op = "create"
    /\ last.status = "ok"
    /\ Len(last.sent) = 1
    /\ Count(last.hooks, "beforeCreateInvite") = 1
    /\ Count(last.hooks, "afterCreateInvite") = 1
    /\ last.hooks[Len(last.hooks)] = "afterCreateInvite"

\* C38: an activation without a session whose token is unknown, exhausted
\* or expired is answered with an error and leaves the pending-invite
\* cookie as it was; one whose token passes the three validations sets the
\* cookie to exactly that token.  No step gives the cookie a new value
\* other than such an activation with a valid token.
C38_ValidationBeforeCookie ==
    [][/\ \A tok \in Tokens, o \in OverridesNow,
            v \in Verdicts(options.canAcceptInvite), d \in BOOLEAN :
            ActivateInvite("callback", NoSession, tok, o, v, d)
            => LET inv == findInvitation(tok)
               IN  IF Valid(inv)
                   THEN /\ last'.status = "ok"
                        /\ last'.message = "SIGN_IN_UP_REQUIRED"
                        /\ inviteCookie' = tok
                   ELSE /\ last'.status = "error"
                        /\ last'.errorCode = "INVALID_TOKEN"
                        /\ inviteCookie' = inviteCookie
       /\ (inviteCookie' # inviteCookie /\ inviteCookie' # NoCookie)
          => /\ Valid(findInvitation(inviteCookie'))
             /\ last'.message = "SIGN_IN_UP_REQUIRED"
             /\ invites' = invites /\ uses' = uses /\ role' = role
    ]_vars

\* an activation without a session was refused for an invitation that is
\* stored with as many use rows as its maxUses, and no cookie is set
C38_Witness ==
    /\ last.op = "callback"
    /\ last.status = "error"
    /\ last.message = "Invite token has already been used"
    /\ inviteCookie = NoCookie
    /\ \E i \in invites : countInvitationUses(i.id) >= i.maxUses

\* C39: when a sign-in or sign-up completes in a browser whose pending
\* invite cookie names an invitation that is no longer stored, the hook ends
\* without an error and without invoking a callback, no invitation row, use
\* row or role changes, and the user is signed in with the role they had.
C39_StaleCookieIsHarmless ==
    [][\A u \in Users, o \in OverridesNow,
         v \in Verdicts(options.canAcceptInvite), d \in BOOLEAN :
        ( /\ InvitesHook(u, o, v, d)
          /\ inviteCookie # NoCookie
          /\ findInvitation(inviteCookie) = Null )
        => /\ last'.op = "hook"
           /\ last'.status = "noop"
           /\ last'.errorCode = "" /\ last'.message = ""
           /\ last'.calls = 0 /\ last'.hooks = << >>
           /\ invites' = invites /\ uses' = uses
           /\ pendingDeletes' = pendingDeletes
           /\ role' = role
           /\ u \in accounts'
    ]_vars

\* the hook has run to its end for a browser whose cookie names an
\* invitation that was created and is gone; every user has an account and
\* nobody's role has changed
C39_Witness ==
    /\ last.op = "hook"
    /\ last.status = "noop"
    /\ inviteCookie # NoCookie
    /\ inviteCookie < nextId
    /\ findInvitation(inviteCookie) = Null
    /\ accounts = Users
    /\ \A u \in Users : role[u] = InitialRole
====
